---- MODULE Spec2Model ----
\* A model of tensorflow_federated/python/core/impl/executors/executor_test_utils.py:
\* the TracingExecutor decorator and its values, over a target Executor that follows
\* the executor contract, and the scoped installation of execution contexts.
\* Further: the `executors` test decorator and AsyncTestCase of the same file, and the
\* type serialization round trip exercised by core/impl/serialization_test.py.
EXTENDS Integers, Sequences, FiniteSets, TLC

VARIABLES
  target,            \* TracingExecutor._target, per tracing executor
  last_used_index,   \* TracingExecutor._last_used_index
  trace,             \* TracingExecutor._trace
  closed,            \* per target executor: close() has been called on it
  calls,             \* every operation issued so far, in issue order, with its outcome
  allocated,         \* per tracing executor: the TracingExecutorValues built, in order
  forwarded,         \* the calls the targets received and answered, in order of answer
  context_stack,     \* per task: the installed contexts, bottom first
  scopes,            \* per task: the open `with install(...)` regions, outermost first
  raising,           \* per task: an error raised by the test body is propagating
  observed,          \* per task: what the body last saw as the current context
  written,           \* how a test method is decorated with `executors` in the source
  generated,         \* what the decorator made of it: the named parameters of the test
  running,           \* the generated test that is running, and the ones that have run
  body_runs,         \* every run of the body of the decorated test, with what it saw
  t0,                \* the type, or thing convertible to a type, a round trip starts from
  t1,                \* types.to_type(t)
  p1,                \* serialize_type(t1)
  t2,                \* deserialize_type(p1)
  p2,                \* serialize_type(t2)
  loops,             \* the event loops made by asyncio.new_event_loop(), in order
  tests              \* per test of an AsyncTestCase: where it is, its loop, its cleanups

vars == <<target, last_used_index, trace, closed, calls, allocated, forwarded,
          context_stack, scopes, raising, observed,
          written, generated, running, body_runs, t0, t1, p1, t2, p2,
          loops, tests>>

execVars == <<target, last_used_index, trace, closed, calls, allocated, forwarded>>
ctxVars == <<context_stack, scopes, raising, observed>>
decVars == <<written, generated, running, body_runs>>
serVars == <<t0, t1, p1, t2, p2>>
asyncVars == <<loops, tests>>

\* What the operations of a tracing executor, and what the context regions, leave alone.
outsideExec == <<ctxVars, decVars, serVars, asyncVars>>
outsideCtx == <<execVars, decVars, serVars, asyncVars>>
outsideDec == <<execVars, scopes, raising, observed, serVars, asyncVars>>
outsideSer == <<execVars, ctxVars, decVars, asyncVars>>
outsideAsync == <<execVars, ctxVars, decVars, serVars>>

\* ---------------------------------------------------------------- bounds

MaxCalls == 3
MaxElements == 1
MaxDepth == 2
MaxNamed == 2
MaxRank == 2
MaxFields == 3
MaxRuns == 2

\* ---------------------------------------------------------------- values

Wrappers == {"A", "B"}
Targets == {"T1", "T2"}

\* Python's None, ints and strs where one argument may hold any of them.
None == [t |-> "none", i |-> 0, s |-> ""]
PyInt(i) == [t |-> "int", i |-> i, s |-> ""]
PyStr(s) == [t |-> "str", i |-> 0, s |-> s]

\* The name of an unnamed element of an anonymous tuple.
NoName == "None"

\* Values an executor embeds: an int32 tensor, a function, a tuple of named values.
IntValue(n) == [k |-> "int", n |-> n, el |-> <<>>]
TupleValue(el) == [k |-> "tup", n |-> 0, el |-> el]
NoValue == [k |-> "none", n |-> 0, el |-> <<>>]

\* (int32 -> int32), the identity lambda.
create_dummy_identity_lambda_computation == [k |-> "fn", n |-> 1, el |-> <<>>]
\* ( -> <>), the empty tensorflow computation.
create_dummy_empty_tensorflow_computation == [k |-> "fn", n |-> 0, el |-> <<>>]

Literals == {IntValue(10), create_dummy_identity_lambda_computation,
             create_dummy_empty_tensorflow_computation}

NoType == "None"
TypeSpecs == {NoType, "int32"}

\* The type a target infers for a literal it is asked to embed.
infer_type(v) ==
  CASE v.k = "int" -> "int32"
    [] v.k = "fn" /\ v.n = 1 -> "(int32 -> int32)"
    [] v.k = "fn" /\ v.n = 0 -> "( -> <>)"
    [] OTHER -> "tuple"

\* A handle of a target executor, and a TracingExecutorValue.
TargetValue(t, v) == [owner |-> t, v |-> v]
NoTargetValue == TargetValue("none", NoValue)

TracingExecutorValue(owner, index, value) ==
  [owner |-> owner, index |-> index, value |-> value]
NoHandle == TracingExecutorValue("none", 0, NoTargetValue)

\* ---------------------------------------------------------------- target executor

Ok(h) == [ok |-> TRUE, err |-> "", h |-> h]
Err(e) == [ok |-> FALSE, err |-> e, h |-> NoTargetValue]

Executor_create_value(t, value, type_spec) ==
  IF closed[t] THEN Err("ClosedExecutorError")
  ELSE IF type_spec # NoType /\ type_spec # infer_type(value)
    THEN Err("TypeMismatchError")
  ELSE Ok(TargetValue(t, value))

Executor_create_call(t, comp, arg) ==
  IF closed[t] THEN Err("ClosedExecutorError")
  ELSE IF comp.owner # t \/ (arg # NoTargetValue /\ arg.owner # t)
    THEN Err("ForeignHandleError")
  ELSE IF comp.v.k # "fn" THEN Err("NotCallableError")
  ELSE IF (comp.v.n = 1) # (arg # NoTargetValue) THEN Err("ArityError")
  ELSE IF comp.v.n = 1 /\ arg.v.k # "int" THEN Err("TypeMismatchError")
  ELSE IF comp.v.n = 1 THEN Ok(TargetValue(t, arg.v))
  ELSE Ok(TargetValue(t, TupleValue(<<>>)))

Executor_create_tuple(t, elements) ==
  IF closed[t] THEN Err("ClosedExecutorError")
  ELSE IF \E i \in DOMAIN elements : elements[i].v.owner # t
    THEN Err("ForeignHandleError")
  ELSE Ok(TargetValue(t, TupleValue(
         [i \in DOMAIN elements |-> [name |-> elements[i].name, v |-> elements[i].v.v]])))

Executor_create_selection(t, source, index, name) ==
  IF closed[t] THEN Err("ClosedExecutorError")
  ELSE IF source.owner # t THEN Err("ForeignHandleError")
  ELSE IF (index # None) = (name # None) THEN Err("SelectionError")
  ELSE IF source.v.k # "tup" THEN Err("SelectionError")
  ELSE IF index # None
    THEN IF index.i >= 0 /\ index.i < Len(source.v.el)
           THEN Ok(TargetValue(t, source.v.el[index.i + 1].v))
           ELSE Err("SelectionError")
  ELSE IF \E i \in DOMAIN source.v.el : source.v.el[i].name = name.s
    THEN Ok(TargetValue(t,
           source.v.el[CHOOSE i \in DOMAIN source.v.el : source.v.el[i].name = name.s].v))
  ELSE Err("SelectionError")

ExecutorValue_compute(value) ==
  IF closed[value.owner] THEN [ok |-> FALSE, err |-> "ClosedExecutorError", result |-> NoValue]
  ELSE [ok |-> TRUE, err |-> "", result |-> value.v]

Executor_close(t) == [closed EXCEPT ![t] = TRUE]

\* The type of the value behind a handle of a target.
ExecutorValue_type_signature(value) == infer_type(value.v)

\* ---------------------------------------------------------------- calls

Range(f) == {f[i] : i \in DOMAIN f}

\* One operation issued by a caller: its arguments, and its outcome once it returned.
\* closed_seen: close() was called on the tracing executor before the call returned.
\* pos: the place in the owner's trace of the entry appended for the call (0: none).
\* seq: the call was the seq-th to return.
NewCall(w, op) ==
  [w |-> w, op |-> op, st |-> "pending", err |-> "",
   value |-> NoValue, type_spec |-> NoType, comp |-> NoHandle, arg |-> NoHandle,
   elements |-> <<>>, source |-> NoHandle, index |-> None, name |-> None,
   self |-> NoHandle, ret |-> NoHandle, result |-> NoValue, pos |-> 0, seq |-> 0,
   closed_seen |-> \E i \in DOMAIN calls : calls[i].op = "close" /\ calls[i].w = w]

Returned == Cardinality({i \in DOMAIN calls : calls[i].st # "pending"})

Pending(op) == {i \in DOMAIN calls : calls[i].op = op /\ calls[i].st = "pending"}

\* The handles callers hold: every TracingExecutorValue returned so far.
Known == UNION {Range(allocated[w]) : w \in Wrappers}

SelectIndexes == {None, PyInt(0), PyInt(1)}
SelectNames == {None, PyStr("x")}
ElementNames == {NoName, "x"}

\* anonymous_tuple structures of handles with at most MaxElements elements, a name
\* being used at most once.
Structures ==
  {e \in UNION {[1..n -> [name : ElementNames, v : Known]] : n \in 0..MaxElements} :
     \A i, j \in DOMAIN e : (i # j /\ e[i].name # NoName) => e[i].name # e[j].name}

map_structure_value(elements) ==
  [i \in DOMAIN elements |-> [name |-> elements[i].name, v |-> elements[i].v.value]]
map_structure_index(elements) ==
  [i \in DOMAIN elements |-> [name |-> elements[i].name, v |-> elements[i].v.index]]

\* A call a target received: its operation and arguments, and its answer.
ForwardedCall(i, t, op) ==
  [call |-> i, t |-> t, op |-> op, handles |-> <<>>, names |-> <<>>,
   value |-> NoValue, type_spec |-> NoType, index |-> None, name |-> None,
   ok |-> TRUE, err |-> "", h |-> NoTargetValue, result |-> NoValue]

Forward(f) == forwarded' = Append(forwarded, f)

\* A create_* takes its index before it awaits the target.
Issue_allocating(c) ==
  /\ Len(calls) < MaxCalls
  /\ calls' = Append(calls, c)
  /\ last_used_index' = [last_used_index EXCEPT
                           ![c.w] = IF c.op = "compute" THEN @ ELSE @ + 1]
  /\ UNCHANGED <<target, trace, closed, allocated, forwarded>>
  /\ UNCHANGED outsideExec

\* A coroutine of the tracing executor runs up to its await of the target.
Issue(c) ==
  /\ Len(calls) < MaxCalls
  /\ calls' = Append(calls, c)
  /\ UNCHANGED <<target, last_used_index, trace, closed, allocated, forwarded>>
  /\ UNCHANGED outsideExec

\* ---------------------------------------------------------------- TracingExecutor

\* The new index is returned and not stored.
get_new_value_index_stale(w) ==
  [val_index |-> last_used_index[w] + 1, last_used_index |-> last_used_index[w]]

get_new_value_index(w) ==
  LET val_index == last_used_index[w] + 1
  IN [val_index |-> val_index, last_used_index |-> val_index]

\* The index was taken before the target was awaited, and stays taken.
Raise_after_allocation(i, e) ==
  /\ calls' = [calls EXCEPT ![i].st = "err", ![i].err = e, ![i].seq = Returned + 1]
  /\ last_used_index' = [last_used_index EXCEPT
                           ![calls[i].w] = IF calls[i].op = "compute" THEN @ ELSE @ + 1]
  /\ UNCHANGED <<target, trace, closed, allocated>>
  /\ UNCHANGED outsideExec

\* The exception of the target propagates out of the coroutine: nothing else changes.
Raise(i, e) ==
  /\ calls' = [calls EXCEPT ![i].st = "err", ![i].err = e, ![i].seq = Returned + 1]
  /\ UNCHANGED <<target, last_used_index, trace, closed, allocated>>
  /\ UNCHANGED outsideExec

\* The entry is put at the head of the trace.
Return_prepend(i, new, wrapped_val, entry) ==
  LET w == calls[i].w
  IN /\ last_used_index' = [last_used_index EXCEPT ![w] = new.last_used_index]
     /\ allocated' = [allocated EXCEPT ![w] = Append(@, wrapped_val)]
     /\ trace' = [trace EXCEPT ![w] = <<entry>> \o @]
     /\ calls' = [calls EXCEPT ![i].st = "ok", ![i].ret = wrapped_val,
                               ![i].pos = Len(trace[w]) + 1, ![i].seq = Returned + 1]
     /\ UNCHANGED <<target, closed>>
     /\ UNCHANGED outsideExec

\* The lines after the await of a create_* method: the wrapper built under the new
\* index is kept, the entry is appended, the wrapper is returned.
Return(i, new, wrapped_val, entry) ==
  LET w == calls[i].w
  IN /\ last_used_index' = [last_used_index EXCEPT ![w] = new.last_used_index]
     /\ allocated' = [allocated EXCEPT ![w] = Append(@, wrapped_val)]
     /\ trace' = [trace EXCEPT ![w] = Append(@, entry)]
     /\ calls' = [calls EXCEPT ![i].st = "ok", ![i].ret = wrapped_val,
                               ![i].pos = Len(trace[w]) + 1, ![i].seq = Returned + 1]
     /\ UNCHANGED <<target, closed>>
     /\ UNCHANGED outsideExec

call_create_value ==
  \E w \in Wrappers, value \in Literals, type_spec \in TypeSpecs :
    Issue([NewCall(w, "create_value") EXCEPT !.value = value, !.type_spec = type_spec])

create_value ==
  \E i \in Pending("create_value") :
    LET c == calls[i]
        r == Executor_create_value(target[c.w], c.value, c.type_spec)
        new == get_new_value_index(c.w)
        wrapped_val == TracingExecutorValue(c.w, new.val_index, r.h)
    IN /\ Forward([ForwardedCall(i, target[c.w], "create_value") EXCEPT
                     !.value = c.value, !.type_spec = c.type_spec,
                     !.ok = r.ok, !.err = r.err, !.h = r.h])
       /\ IF r.ok
            THEN Return(i, new, wrapped_val,
                        IF c.type_spec # NoType
                          THEN <<"create_value", c.value, c.type_spec, wrapped_val.index>>
                          ELSE <<"create_value", c.value, wrapped_val.index>>)
            ELSE Raise(i, r.err)

call_create_call ==
  \E w \in Wrappers, comp \in Known, arg \in Known \cup {NoHandle} :
    Issue([NewCall(w, "create_call") EXCEPT !.comp = comp, !.arg = arg])

\* The arguments the target gets, and what it answers.
Call_create_call(t, args) ==
  Executor_create_call(t, args[1], IF Len(args) = 2 THEN args[2] ELSE NoTargetValue)

create_call ==
  \E i \in Pending("create_call") :
    LET c == calls[i]
        args == IF c.arg # NoHandle THEN <<c.comp.value, c.arg.value>> ELSE <<c.comp.value>>
        r == Call_create_call(target[c.w], args)
        new == get_new_value_index(c.w)
        wrapped_val == TracingExecutorValue(c.w, new.val_index, r.h)
    IN /\ Forward([ForwardedCall(i, target[c.w], "create_call") EXCEPT
                     !.handles = args, !.ok = r.ok, !.err = r.err, !.h = r.h])
       /\ IF r.ok
            THEN Return(i, new, wrapped_val,
                        IF c.arg # NoHandle
                          THEN <<"create_call", c.comp.index, c.arg.index, wrapped_val.index>>
                          ELSE <<"create_call", c.comp.index, wrapped_val.index>>)
            ELSE Raise(i, r.err)

call_create_tuple ==
  \E w \in Wrappers, elements \in Structures :
    Issue([NewCall(w, "create_tuple") EXCEPT !.elements = elements])

\* The elements are passed on without their names.
create_tuple_unnamed ==
  \E i \in Pending("create_tuple") :
    LET c == calls[i]
        args == [k \in DOMAIN c.elements |-> [name |-> NoName, v |-> c.elements[k].v.value]]
        r == Executor_create_tuple(target[c.w], args)
        new == get_new_value_index(c.w)
        wrapped_val == TracingExecutorValue(c.w, new.val_index, r.h)
    IN /\ Forward([ForwardedCall(i, target[c.w], "create_tuple") EXCEPT
                     !.handles = [k \in DOMAIN args |-> args[k].v],
                     !.names = [k \in DOMAIN args |-> args[k].name],
                     !.ok = r.ok, !.err = r.err, !.h = r.h])
       /\ IF r.ok
            THEN Return(i, new, wrapped_val,
                        <<"create_tuple", map_structure_index(c.elements), wrapped_val.index>>)
            ELSE Raise(i, r.err)

create_tuple ==
  \E i \in Pending("create_tuple") :
    LET c == calls[i]
        args == map_structure_value(c.elements)
        r == Executor_create_tuple(target[c.w], args)
        new == get_new_value_index(c.w)
        wrapped_val == TracingExecutorValue(c.w, new.val_index, r.h)
    IN /\ Forward([ForwardedCall(i, target[c.w], "create_tuple") EXCEPT
                     !.handles = [k \in DOMAIN args |-> args[k].v],
                     !.names = [k \in DOMAIN args |-> args[k].name],
                     !.ok = r.ok, !.err = r.err, !.h = r.h])
       /\ IF r.ok
            THEN Return(i, new, wrapped_val,
                        <<"create_tuple", map_structure_index(c.elements), wrapped_val.index>>)
            ELSE Raise(i, r.err)

call_create_selection ==
  \E w \in Wrappers, source \in Known, index \in SelectIndexes, name \in SelectNames :
    Issue([NewCall(w, "create_selection") EXCEPT
             !.source = source, !.index = index, !.name = name])

\* The name is passed on only when no index is given.
create_selection_index_first ==
  \E i \in Pending("create_selection") :
    LET c == calls[i]
        name == IF c.index # None THEN None ELSE c.name
        r == Executor_create_selection(target[c.w], c.source.value, c.index, name)
        new == get_new_value_index(c.w)
        wrapped_val == TracingExecutorValue(c.w, new.val_index, r.h)
    IN /\ Forward([ForwardedCall(i, target[c.w], "create_selection") EXCEPT
                     !.handles = <<c.source.value>>, !.index = c.index, !.name = name,
                     !.ok = r.ok, !.err = r.err, !.h = r.h])
       /\ IF r.ok
            THEN Return(i, new, wrapped_val,
                        <<"create_selection", c.source.index,
                          IF c.index # None THEN c.index ELSE c.name, wrapped_val.index>>)
            ELSE Raise(i, r.err)

\* The recorded selector is `index or name`: position 0 counts as not given.
create_selection_falsy_index ==
  \E i \in Pending("create_selection") :
    LET c == calls[i]
        r == Executor_create_selection(target[c.w], c.source.value, c.index, c.name)
        new == get_new_value_index(c.w)
        wrapped_val == TracingExecutorValue(c.w, new.val_index, r.h)
    IN /\ Forward([ForwardedCall(i, target[c.w], "create_selection") EXCEPT
                     !.handles = <<c.source.value>>, !.index = c.index, !.name = c.name,
                     !.ok = r.ok, !.err = r.err, !.h = r.h])
       /\ IF r.ok
            THEN Return(i, new, wrapped_val,
                        <<"create_selection", c.source.index,
                          IF c.index # None /\ c.index.i # 0 THEN c.index ELSE c.name,
                          wrapped_val.index>>)
            ELSE Raise(i, r.err)

create_selection ==
  \E i \in Pending("create_selection") :
    LET c == calls[i]
        r == Executor_create_selection(target[c.w], c.source.value, c.index, c.name)
        new == get_new_value_index(c.w)
        wrapped_val == TracingExecutorValue(c.w, new.val_index, r.h)
    IN /\ Forward([ForwardedCall(i, target[c.w], "create_selection") EXCEPT
                     !.handles = <<c.source.value>>, !.index = c.index, !.name = c.name,
                     !.ok = r.ok, !.err = r.err, !.h = r.h])
       /\ IF r.ok
            THEN Return(i, new, wrapped_val,
                        <<"create_selection", c.source.index,
                          IF c.index # None THEN c.index ELSE c.name, wrapped_val.index>>)
            ELSE Raise(i, r.err)

TracingExecutorValue_type_signature(self) == ExecutorValue_type_signature(self.value)

\* TracingExecutorValue.compute, up to its await.
call_compute ==
  \E self \in Known :
    Issue([NewCall(self.owner, "compute") EXCEPT !.self = self])

\* The result is returned and no entry is appended.
compute_untraced ==
  \E i \in Pending("compute") :
    LET c == calls[i]
        r == ExecutorValue_compute(c.self.value)
        owner == c.self.owner
    IN /\ Forward([ForwardedCall(i, c.self.value.owner, "compute") EXCEPT
                     !.handles = <<c.self.value>>,
                     !.ok = r.ok, !.err = r.err, !.result = r.result])
       /\ IF r.ok
            THEN /\ calls' = [calls EXCEPT ![i].st = "ok", ![i].result = r.result,
                                           ![i].pos = Len(trace[owner]) + 1,
                                           ![i].seq = Returned + 1]
                 /\ UNCHANGED <<target, last_used_index, trace, closed, allocated>>
                 /\ UNCHANGED outsideExec
            ELSE Raise(i, r.err)

\* TracingExecutorValue.compute, after its await.
compute ==
  \E i \in Pending("compute") :
    LET c == calls[i]
        r == ExecutorValue_compute(c.self.value)
        owner == c.self.owner
    IN /\ Forward([ForwardedCall(i, c.self.value.owner, "compute") EXCEPT
                     !.handles = <<c.self.value>>,
                     !.ok = r.ok, !.err = r.err, !.result = r.result])
       /\ IF r.ok
            THEN /\ trace' = [trace EXCEPT
                                ![owner] = Append(@, <<"compute", c.self.index, r.result>>)]
                 /\ calls' = [calls EXCEPT ![i].st = "ok", ![i].result = r.result,
                                           ![i].pos = Len(trace[owner]) + 1,
                                           ![i].seq = Returned + 1]
                 /\ UNCHANGED <<target, last_used_index, closed, allocated>>
                 /\ UNCHANGED outsideExec
            ELSE Raise(i, r.err)

\* What close() does to the calls: those in flight on the executor have seen it, and
\* the close itself has returned or raised.
Closing(w, st, err) ==
  calls' = Append([i \in DOMAIN calls |->
                     IF calls[i].w = w /\ calls[i].st = "pending"
                       THEN [calls[i] EXCEPT !.closed_seen = TRUE] ELSE calls[i]],
                  [NewCall(w, "close") EXCEPT !.st = st, !.err = err, !.seq = Returned + 1])

\* close() does not reach the target.
close_undelegated ==
  \E w \in Wrappers :
    /\ Len(calls) < MaxCalls
    /\ Closing(w, "ok", "")
    /\ UNCHANGED <<target, last_used_index, trace, closed, allocated, forwarded>>
    /\ UNCHANGED outsideExec

\* close() on a closed target fails like every other operation.
close_once ==
  \E w \in Wrappers :
    /\ Len(calls) < MaxCalls
    /\ closed' = Executor_close(target[w])
    /\ Forward(ForwardedCall(Len(calls) + 1, target[w], "close"))
    /\ IF closed[target[w]]
         THEN Closing(w, "err", "ClosedExecutorError")
         ELSE Closing(w, "ok", "")
    /\ UNCHANGED <<target, last_used_index, trace, allocated>>
    /\ UNCHANGED outsideExec

\* close() empties the trace.
close_clearing ==
  \E w \in Wrappers :
    /\ Len(calls) < MaxCalls
    /\ closed' = Executor_close(target[w])
    /\ Forward(ForwardedCall(Len(calls) + 1, target[w], "close"))
    /\ Closing(w, "ok", "")
    /\ trace' = [trace EXCEPT ![w] = <<>>]
    /\ UNCHANGED <<target, last_used_index, allocated>>
    /\ UNCHANGED outsideExec

close ==
  \E w \in Wrappers :
    /\ Len(calls) < MaxCalls
    /\ closed' = Executor_close(target[w])
    /\ Forward(ForwardedCall(Len(calls) + 1, target[w], "close"))
    /\ Closing(w, "ok", "")
    /\ UNCHANGED <<target, last_used_index, trace, allocated>>
    /\ UNCHANGED outsideExec

\* ---------------------------------------------------------------- execution contexts

Tasks == {"t1", "t2"}

\* What a test is parameterized by: ReferenceExecutor is a context_base.Context, the
\* local executor factory is not.
ReferenceExecutor == [is_context |-> TRUE, name |-> "reference"]
local_executor_factory == [is_context |-> FALSE, name |-> "local"]
NamedExecutors == {ReferenceExecutor, local_executor_factory}

DefaultContext == [wrapped |-> FALSE, executor |-> "default"]
ExecutionContext(executor) == [wrapped |-> TRUE, executor |-> executor.name]

\* context_stack_impl.context_stack: the stack of the calling task.
current_context(t) == context_stack[t][Len(context_stack[t])]
\* One stack for the whole process.
install_enter_shared(t, context) == [u \in Tasks |-> Append(context_stack[u], context)]
install_enter(t, context) == [context_stack EXCEPT ![t] = Append(@, context)]
install_exit(t) == [context_stack EXCEPT ![t] = SubSeq(@, 1, Len(@) - 1)]

Scope(t, fn, context) == [fn |-> fn, context |-> context, prev |-> current_context(t)]
InBody(t) == scopes[t] # <<>> /\ ~raising[t]

\* `with context_stack.install(context):` is entered.
Enter(t, fn, context) ==
  /\ Len(scopes[t]) < MaxDepth
  /\ scopes' = [scopes EXCEPT ![t] = Append(@, Scope(t, fn, context))]
  /\ context_stack' = install_enter(t, context)
  /\ UNCHANGED <<raising, observed>>
  /\ UNCHANGED outsideCtx

\* wrapped_fn(self, executor), up to the call of fn(self).
wrapped_fn ==
  \E t \in Tasks, executor \in NamedExecutors :
    /\ scopes[t] = <<>>
    /\ ~raising[t]
    /\ Enter(t, "wrapped_fn",
             IF ~executor.is_context THEN ExecutionContext(executor)
             ELSE [wrapped |-> FALSE, executor |-> executor.name])

\* `with install_executor(executor_factory_instance):` in a test body or a test.
install_executor ==
  \E t \in Tasks, executor_factory_instance \in NamedExecutors :
    /\ ~raising[t]
    /\ Enter(t, "install_executor", ExecutionContext(executor_factory_instance))

\* The body of the region reads the current context.
fn_runs ==
  \E t \in Tasks :
    /\ InBody(t)
    /\ observed' = [observed EXCEPT ![t] =
                      [saw |-> current_context(t),
                       installed |-> scopes[t][Len(scopes[t])].context,
                       exits |-> @.exits]]
    /\ UNCHANGED <<context_stack, scopes, raising>>
    /\ UNCHANGED outsideCtx

\* The body of the region raises.
fn_raises ==
  \E t \in Tasks :
    /\ InBody(t)
    /\ raising' = [raising EXCEPT ![t] = TRUE]
    /\ UNCHANGED <<context_stack, scopes, observed>>
    /\ UNCHANGED outsideCtx

\* The innermost region is left, by the end of its body or by the error passing through
\* it; an error that has left the outermost region has left the test.
Exit(t, how) ==
  /\ scopes[t] # <<>>
  /\ scopes' = [scopes EXCEPT ![t] = SubSeq(@, 1, Len(@) - 1)]
  /\ raising' = [raising EXCEPT ![t] = @ /\ Len(scopes[t]) > 1]
  /\ observed' = [observed EXCEPT ![t].exits = IF how = "error" THEN "error" ELSE @]
  /\ UNCHANGED outsideCtx

with_return ==
  \E t \in Tasks :
    /\ ~raising[t]
    /\ Exit(t, "return")
    /\ context_stack' = install_exit(t)

\* The error skips the exit of the region.
with_error_unguarded ==
  \E t \in Tasks :
    /\ raising[t]
    /\ Exit(t, "error")
    /\ UNCHANGED context_stack

with_error ==
  \E t \in Tasks :
    /\ raising[t]
    /\ Exit(t, "error")
    /\ context_stack' = install_exit(t)

\* ---------------------------------------------------------------- the executors decorator

\* Executors a test may be parameterized by, besides the two defaults: an executor that
\* is not a context, and a context.
Executors ==
  NamedExecutors \cup {[is_context |-> FALSE, name |-> "tracing"],
                       [is_context |-> TRUE, name |-> "interpreter"]}
NoExecutor == [is_context |-> FALSE, name |-> "none"]
Labels == {"reference", "x", "y"}

\* What `executors` may get as one of its *args: the test function, or a named executor.
Fn == [callable |-> TRUE, label |-> "", executor |-> NoExecutor]
Named(label, executor) == [callable |-> FALSE, label |-> label, executor |-> executor]

\* The argument lists of `@executors(...)`: at most MaxNamed named executors, the labels
\* being different, as parameterized.named_parameters demands.
NamedArgs ==
  {a \in UNION {[1..n -> {Named(l, e) : l \in Labels, e \in Executors}] : n \in 0..MaxNamed} :
     \A i, j \in DOMAIN a : i # j => a[i].label # a[j].label}

\* `@executors` hands the function itself to executors; `@executors(...)` hands it the
\* arguments written.
Decorations == {[form |-> "bare", args |-> <<Fn>>]}
                 \cup {[form |-> "called", args |-> a] : a \in NamedArgs}

\* The given executors are used as they are, even when there are none.
decorator_without_defaults(named_executors) == named_executors

\* decorator(fn, *named_executors): the parameters handed to named_parameters.
decorator(named_executors) ==
  IF named_executors = <<>>
    THEN <<Named("reference", ReferenceExecutor), Named("local", local_executor_factory)>>
    ELSE named_executors

\* executors(*args), and the application of what it returns to the test function.
executors(args) ==
  IF Len(args) = 1 /\ args[1].callable THEN decorator(<<>>) ELSE decorator(args)

\* The context wrapped_fn installs for the executor it is given.
ContextOf(executor) ==
  IF ~executor.is_context THEN ExecutionContext(executor)
  ELSE [wrapped |-> FALSE, executor |-> executor.name]

\* The task that runs the generated tests.
Runner == "t1"

\* The decorated method is defined: the module is loaded.
apply_executors ==
  /\ ~generated.decorated
  /\ generated' = [decorated |-> TRUE, params |-> executors(written.args)]
  /\ UNCHANGED <<written, running, body_runs, context_stack>>
  /\ UNCHANGED outsideDec

\* A generated test that has not run is started: wrapped_fn(self, executor) up to the
\* call of fn(self).
test_starts ==
  \E k \in DOMAIN generated.params :
    /\ generated.decorated
    /\ running.k = 0
    /\ k \notin running.ran
    /\ running' = [running EXCEPT !.k = k]
    /\ context_stack' = install_enter(Runner, ContextOf(generated.params[k].executor))
    /\ UNCHANGED <<written, generated, body_runs>>
    /\ UNCHANGED outsideDec

\* fn(self): the body of the test runs and looks at the current context.
test_body ==
  /\ running.k # 0
  /\ ~running.body
  /\ running' = [running EXCEPT !.body = TRUE]
  /\ body_runs' = Append(body_runs, [k |-> running.k,
                                      label |-> generated.params[running.k].label,
                                      saw |-> current_context(Runner)])
  /\ UNCHANGED <<written, generated, context_stack>>
  /\ UNCHANGED outsideDec

\* The `with` region of wrapped_fn is left and the test is over.
test_ends ==
  /\ running.k # 0
  /\ running.body
  /\ running' = [k |-> 0, body |-> FALSE, ran |-> running.ran \cup {running.k}]
  /\ context_stack' = install_exit(Runner)
  /\ UNCHANGED <<written, generated, body_runs>>
  /\ UNCHANGED outsideDec

\* ---------------------------------------------------------------- type serialization

\* A type: a tensor (dtype, shape), a sequence (one element), a named tuple (elements
\* with a name or None) or a function (parameter or none, result).  A dimension is an
\* int or None, a name a str or None; what a type does not have is left empty.
Type(kind, dtype, shape, elements, parameter, result) ==
  [kind |-> kind, dtype |-> dtype, shape |-> shape, elements |-> elements,
   parameter |-> parameter, result |-> result]

TensorType(dtype, shape) == Type("tensor", dtype, shape, <<>>, <<>>, <<>>)
SequenceType(element) ==
  Type("sequence", "", <<>>, <<[name |-> None, type |-> element]>>, <<>>, <<>>)
NamedTupleType(elements) == Type("tuple", "", <<>>, elements, <<>>, <<>>)
\* parameter: <<>> for FunctionType(None, result), <<T>> for FunctionType(T, result).
FunctionType(parameter, result) == Type("function", "", <<>>, <<>>, parameter, <<result>>)
NoneType == Type("none", "", <<>>, <<>>, <<>>, <<>>)

\* The wire message of a type: which member of the oneof is set, and its fields; a
\* dim is an int64 size, the name of an element a string that is empty when not set.
WireType(which, dtype, dim, element, parameter, result) ==
  [which |-> which, dtype |-> dtype, dim |-> dim, element |-> element,
   parameter |-> parameter, result |-> result]
NoWireType == WireType("not set", "", <<>>, <<>>, <<>>, <<>>)

DTypes == {"int32", "string"}
as_datatype_enum(dtype) == IF dtype = "int32" THEN "DT_INT32" ELSE "DT_STRING"
as_dtype(datatype_enum) == IF datatype_enum = "DT_INT32" THEN "int32" ELSE "string"

\* An unknown dimension is written as size 0.
serialize_dim_zero(d) == IF d = None THEN 0 ELSE d.i

serialize_dim(d) == IF d = None THEN -1 ELSE d.i

\* The size is taken as it is.
deserialize_dim_raw(size) == PyInt(size)

deserialize_dim(size) == IF size < 0 THEN None ELSE PyInt(size)

\* An element without a name gets the name "None".
serialize_name_str(name) == IF name = None THEN "None" ELSE name.s

serialize_name(name) == IF name = None THEN "" ELSE name.s

deserialize_name(name) == IF name = "" THEN None ELSE PyStr(name)

RECURSIVE serialize_type(_)
serialize_type(type_spec) ==
  CASE type_spec.kind = "tensor" ->
         WireType("tensor", as_datatype_enum(type_spec.dtype),
                  [i \in DOMAIN type_spec.shape |-> serialize_dim(type_spec.shape[i])],
                  <<>>, <<>>, <<>>)
    [] type_spec.kind = "sequence" ->
         WireType("sequence", "", <<>>,
                  <<[name |-> "", value |-> serialize_type(type_spec.elements[1].type)]>>,
                  <<>>, <<>>)
    [] type_spec.kind = "tuple" ->
         WireType("tuple", "", <<>>,
                  [i \in DOMAIN type_spec.elements |->
                     [name |-> serialize_name(type_spec.elements[i].name),
                      value |-> serialize_type(type_spec.elements[i].type)]],
                  <<>>, <<>>)
    [] type_spec.kind = "function" ->
         WireType("function", "", <<>>, <<>>,
                  [i \in DOMAIN type_spec.parameter |-> serialize_type(type_spec.parameter[i])],
                  <<serialize_type(type_spec.result[1])>>)

RECURSIVE deserialize_type(_)
deserialize_type(type_proto) ==
  CASE type_proto.which = "tensor" ->
         TensorType(as_dtype(type_proto.dtype),
                    [i \in DOMAIN type_proto.dim |-> deserialize_dim(type_proto.dim[i])])
    [] type_proto.which = "sequence" ->
         SequenceType(deserialize_type(type_proto.element[1].value))
    [] type_proto.which = "tuple" ->
         NamedTupleType([i \in DOMAIN type_proto.element |->
                           [name |-> deserialize_name(type_proto.element[i].name),
                            type |-> deserialize_type(type_proto.element[i].value)]])
    [] type_proto.which = "function" ->
         FunctionType([i \in DOMAIN type_proto.parameter |->
                         deserialize_type(type_proto.parameter[i])],
                      deserialize_type(type_proto.result[1]))

\* self.is_assignable_from(other): a value of type other may be used where self is
\* expected.  A dimension of self that is None accepts any size.
RECURSIVE is_assignable_from(_, _)
is_assignable_from(self, other) ==
  /\ self.kind = other.kind
  /\ CASE self.kind = "tensor" ->
            /\ self.dtype = other.dtype
            /\ Len(self.shape) = Len(other.shape)
            /\ \A i \in DOMAIN self.shape :
                 self.shape[i] = None \/ self.shape[i] = other.shape[i]
       [] self.kind \in {"sequence", "tuple"} ->
            /\ Len(self.elements) = Len(other.elements)
            /\ \A i \in DOMAIN self.elements :
                 /\ self.elements[i].name = other.elements[i].name
                 /\ is_assignable_from(self.elements[i].type, other.elements[i].type)
       [] self.kind = "function" ->
            /\ Len(self.parameter) = Len(other.parameter)
            /\ \A i \in DOMAIN self.parameter :
                 is_assignable_from(other.parameter[i], self.parameter[i])
            /\ is_assignable_from(self.result[1], other.result[1])
       [] OTHER -> FALSE

\* The types the round trips are run on.
Dims == {None, PyInt(10)}
Shapes == UNION {[1..n -> Dims] : n \in 0..MaxRank}
TensorTypes == {TensorType(d, sh) : d \in DTypes, sh \in Shapes}

Leaves == {TensorType("int32", <<>>), TensorType("string", <<None>>)}
FieldNames == {None, PyStr("x"), PyStr("y")}

\* Named tuples of at most MaxFields elements taken from a set, no name used twice.
TuplesOver(types) ==
  {NamedTupleType(e) :
     e \in {f \in UNION {[1..n -> [name : FieldNames, type : types]] : n \in 0..MaxFields} :
              \A i, j \in DOMAIN f : (i # j /\ f[i].name # None) => f[i].name # f[j].name}}

Inner ==
  Leaves \cup {NamedTupleType(<<[name |-> PyStr("y"), type |-> TensorType("int32", <<>>)],
                                [name |-> None, type |-> TensorType("string", <<>>)]>>),
               SequenceType(TensorType("int32", <<None>>))}

Types ==
  TensorTypes
    \cup {SequenceType(e) : e \in Inner}
    \cup TuplesOver(Inner)
    \cup {FunctionType(par, res) : par \in {<<>>} \cup {<<e>> : e \in Inner}, res \in Inner}

\* What a test hands to to_type: a bare dtype such as tf.int32, or a type.
Convertibles ==
  {[dtype |-> d, type |-> NoneType] : d \in DTypes}
    \cup {[dtype |-> "", type |-> ty] : ty \in Types}

\* types.to_type: a dtype alone is a tensor type with no dimensions.
to_type(spec) == IF spec.type = NoneType THEN TensorType(spec.dtype, <<>>) ELSE spec.type

\* t1 = types.to_type(t)
roundtrip_to_type ==
  /\ t1 = NoneType
  /\ t1' = to_type(t0)
  /\ UNCHANGED <<t0, p1, t2, p2>>
  /\ UNCHANGED outsideSer

\* p1 = serialization.serialize_type(t1)
roundtrip_serialize ==
  /\ t1 # NoneType /\ p1 = NoWireType
  /\ p1' = serialize_type(t1)
  /\ UNCHANGED <<t0, t1, t2, p2>>
  /\ UNCHANGED outsideSer

\* t2 = serialization.deserialize_type(p1)
roundtrip_deserialize ==
  /\ p1 # NoWireType /\ t2 = NoneType
  /\ t2' = deserialize_type(p1)
  /\ UNCHANGED <<t0, t1, p1, p2>>
  /\ UNCHANGED outsideSer

\* p2 = serialization.serialize_type(t2)
roundtrip_serialize_again ==
  /\ t2 # NoneType /\ p2 = NoWireType
  /\ p2' = serialize_type(t2)
  /\ UNCHANGED <<t0, t1, p1, t2>>
  /\ UNCHANGED outsideSer

\* ---------------------------------------------------------------- AsyncTestCase

\* The tests of a test case class deriving from AsyncTestCase.
TestMethods == {"test_a", "test_b"}

\* What a test hands to run_sync: a coroutine that returns a value, or raises.
Coroutines == {[returns |-> PyInt(1), raises |-> FALSE],
               [returns |-> PyInt(2), raises |-> FALSE],
               [returns |-> None, raises |-> TRUE]}

\* An event loop: how often close() was called on it, and the coroutines it ran.
new_event_loop == [closed |-> 0, completed |-> <<>>]

\* A test before unittest runs it.  outcome: "", "passed", "failed", "error in setUp".
NewTest == [pc |-> "ready", loop |-> 0, cleanups |-> <<>>, outcome |-> "", runs |-> <<>>]

\* unittest runs one test at a time.
Idle == \A m \in TestMethods : tests[m].pc \in {"ready", "done"}

\* The loop is made and its close() is not registered anywhere.
setUp_unregistered ==
  \E m \in TestMethods :
    /\ Idle
    /\ tests[m].pc = "ready"
    /\ loops' = Append(loops, new_event_loop)
    /\ tests' = [tests EXCEPT ![m].pc = "setUp", ![m].loop = Len(loops) + 1]
    /\ UNCHANGED outsideAsync

\* AsyncTestCase.setUp: a new loop, and its close() registered as a cleanup.
setUp ==
  \E m \in TestMethods :
    /\ Idle
    /\ tests[m].pc = "ready"
    /\ loops' = Append(loops, new_event_loop)
    /\ tests' = [tests EXCEPT ![m].pc = "setUp", ![m].loop = Len(loops) + 1,
                               ![m].cleanups = Append(@, Len(loops) + 1)]
    /\ UNCHANGED outsideAsync

\* The setUp of the deriving class fails after super().setUp(): the test method and
\* tearDown are skipped.
setUp_fails ==
  \E m \in TestMethods :
    /\ tests[m].pc = "setUp"
    /\ tests' = [tests EXCEPT ![m].pc = "doCleanups", ![m].outcome = "error in setUp"]
    /\ UNCHANGED loops
    /\ UNCHANGED outsideAsync

\* setUp has returned and the test method is entered.
test_method ==
  \E m \in TestMethods :
    /\ tests[m].pc = "setUp"
    /\ tests' = [tests EXCEPT ![m].pc = "test"]
    /\ UNCHANGED loops
    /\ UNCHANGED outsideAsync

\* loop.run_until_complete(coro): the coroutine is run to its end on the loop; what it
\* returned or raised is what the call returns or raises.  A closed loop runs nothing.
run_until_complete(l, coro) ==
  IF loops[l].closed > 0
    THEN [loops |-> loops, returns |-> None, raises |-> TRUE]
    ELSE [loops |-> [loops EXCEPT ![l].completed = Append(@, coro)],
          returns |-> coro.returns, raises |-> coro.raises]

\* self.run_sync(coro) in a test method; an exception it raises ends the test method.
run_sync ==
  \E m \in TestMethods, coro \in Coroutines :
    LET r == run_until_complete(tests[m].loop, coro)
    IN /\ tests[m].pc = "test"
       /\ Len(tests[m].runs) < MaxRuns
       /\ loops' = r.loops
       /\ tests' = [tests EXCEPT
                      ![m].runs = Append(@, [coro |-> coro, loop |-> tests[m].loop,
                                             returned |-> r.returns, raised |-> r.raises]),
                      ![m].pc = IF r.raises THEN "tearDown" ELSE @,
                      ![m].outcome = IF r.raises THEN "failed" ELSE @]
       /\ UNCHANGED outsideAsync

\* The test method returns, or an assertion of it fails.
test_method_ends ==
  \E m \in TestMethods, outcome \in {"passed", "failed"} :
    /\ tests[m].pc = "test"
    /\ tests' = [tests EXCEPT ![m].pc = "tearDown", ![m].outcome = outcome]
    /\ UNCHANGED loops
    /\ UNCHANGED outsideAsync

\* tearDown, which AsyncTestCase does not override.
tearDown ==
  \E m \in TestMethods :
    /\ tests[m].pc = "tearDown"
    /\ tests' = [tests EXCEPT ![m].pc = "doCleanups"]
    /\ UNCHANGED loops
    /\ UNCHANGED outsideAsync

\* unittest's doCleanups: every registered cleanup is called, here loop.close().
doCleanups ==
  \E m \in TestMethods :
    /\ tests[m].pc = "doCleanups"
    /\ loops' = [l \in DOMAIN loops |->
                   [loops[l] EXCEPT !.closed =
                      @ + Cardinality({n \in DOMAIN tests[m].cleanups :
                                         tests[m].cleanups[n] = l})]]
    /\ tests' = [tests EXCEPT ![m].pc = "done", ![m].cleanups = <<>>]
    /\ UNCHANGED outsideAsync

\* ---------------------------------------------------------------- specification

ExecInit ==
  /\ last_used_index = [w \in Wrappers |-> 0]
  /\ trace = [w \in Wrappers |-> <<>>]
  /\ closed = [t \in Targets |-> FALSE]
  /\ calls = <<>>
  /\ allocated = [w \in Wrappers |-> <<>>]
  /\ forwarded = <<>>

CtxInit ==
  /\ context_stack = [t \in Tasks |-> <<DefaultContext>>]
  /\ scopes = [t \in Tasks |-> <<>>]
  /\ raising = [t \in Tasks |-> FALSE]
  /\ observed = [t \in Tasks |->
                  [saw |-> DefaultContext, installed |-> DefaultContext, exits |-> "none"]]

\* No test has run and no loop exists.
AsyncInit == loops = <<>> /\ tests = [m \in TestMethods |-> NewTest]

\* No round trip has started.
SerInit == t1 = NoneType /\ p1 = NoWireType /\ t2 = NoneType /\ p2 = NoWireType

\* No test has been generated or run.
DecInit ==
  /\ generated = [decorated |-> FALSE, params |-> <<>>]
  /\ running = [k |-> 0, body |-> FALSE, ran |-> {}]
  /\ body_runs = <<>>

Init ==
  /\ target \in {f \in [Wrappers -> Targets] : f["A"] = "T1"}
  /\ ExecInit
  /\ CtxInit
  /\ written = [form |-> "bare", args |-> <<Fn>>]
  /\ DecInit
  /\ t0 = [dtype |-> "int32", type |-> NoneType]
  /\ SerInit
  /\ AsyncInit

Next ==
  \/ call_create_value
  \/ create_value
  \/ call_create_call
  \/ create_call
  \/ call_create_tuple
  \/ create_tuple
  \/ call_create_selection
  \/ create_selection
  \/ call_compute
  \/ compute
  \/ close

Spec == Init /\ [][Next]_vars

ContextNext ==
  \/ wrapped_fn
  \/ install_executor
  \/ fn_runs
  \/ fn_raises
  \/ with_return
  \/ with_error

ContextSpec == Init /\ [][ContextNext]_vars

\* A test method decorated in one of the ways `executors` allows, and its tests run.
DecoratorInit ==
  /\ target = [w \in Wrappers |-> "T1"]
  /\ ExecInit
  /\ CtxInit
  /\ written \in Decorations
  /\ DecInit
  /\ t0 = [dtype |-> "int32", type |-> NoneType]
  /\ SerInit
  /\ AsyncInit

DecoratorNext ==
  \/ apply_executors
  \/ test_starts
  \/ test_body
  \/ test_ends

DecoratorSpec == DecoratorInit /\ [][DecoratorNext]_vars

\* One round trip of _serialize_deserialize_roundtrip_test, on any of the types.
SerializationInit ==
  /\ target = [w \in Wrappers |-> "T1"]
  /\ ExecInit
  /\ CtxInit
  /\ written = [form |-> "bare", args |-> <<Fn>>]
  /\ DecInit
  /\ t0 \in Convertibles
  /\ SerInit
  /\ AsyncInit

SerializationNext ==
  \/ roundtrip_to_type
  \/ roundtrip_serialize
  \/ roundtrip_deserialize
  \/ roundtrip_serialize_again

SerializationSpec == SerializationInit /\ [][SerializationNext]_vars

\* The tests of an AsyncTestCase, run by unittest one after the other in any order.
AsyncNext ==
  \/ setUp
  \/ setUp_fails
  \/ test_method
  \/ run_sync
  \/ test_method_ends
  \/ tearDown
  \/ doCleanups

AsyncSpec == Init /\ [][AsyncNext]_vars

\* ---------------------------------------------------------------- reading a trace

IsCreate(e) == e[1] \in {"create_value", "create_call", "create_tuple", "create_selection"}

\* The output index of a create_* entry: its last component.
OutputIndex(e) == e[Len(e)]

\* The indices of the input handles an entry records.
InputIndices(e) ==
  CASE e[1] = "create_call" -> {e[k] : k \in 2..(Len(e) - 1)}
    [] e[1] = "create_tuple" -> {e[2][k].v : k \in DOMAIN e[2]}
    [] e[1] = "create_selection" -> {e[2]}
    [] e[1] = "compute" -> {e[2]}
    [] OTHER -> {}

Finished == {i \in DOMAIN calls : calls[i].st # "pending"}
Succeeded == {i \in DOMAIN calls : calls[i].st = "ok" /\ calls[i].op # "close"}

\* The handles a call was given.
InputHandles(c) ==
  CASE c.op = "create_call" -> {c.comp} \cup ({c.arg} \ {NoHandle})
    [] c.op = "create_tuple" -> {c.elements[k].v : k \in DOMAIN c.elements}
    [] c.op = "create_selection" -> {c.source}
    [] c.op = "compute" -> {c.self}
    [] OTHER -> {}

\* ---------------------------------------------------------------- claims

\* C1: within one TracingExecutor the indices of the handles it returns start at 1 and
\* are strictly increasing in allocation order, so no index is given to two handles,
\* whatever the interleaving of the operations in flight.
C1_IndexUniqueness ==
  \A w \in Wrappers :
    /\ allocated[w] # <<>> => allocated[w][1].index = 1
    /\ \A i, j \in DOMAIN allocated[w] :
         i < j => allocated[w][i].index < allocated[w][j].index

\* Two operations of one tracing executor overlapped and returned in the opposite order.
C1_Witness ==
  \E i, j \in Succeeded :
    /\ i < j
    /\ calls[i].w = calls[j].w
    /\ calls[i].ret # NoHandle /\ calls[j].ret # NoHandle
    /\ calls[j].ret.index < calls[i].ret.index

\* C2 as stated: every operation that has returned has exactly one trace entry, and the
\* entries are in the order in which the operations were issued.
C2_IssueOrderRecord ==
  /\ \A i \in Finished : calls[i].op # "close" => calls[i].pos # 0
  /\ \A i, j \in Finished :
       (i < j /\ calls[i].w = calls[j].w /\ calls[i].pos # 0 /\ calls[j].pos # 0)
         => calls[i].pos < calls[j].pos

\* C2, amended: the trace holds exactly one entry for every operation that returned
\* successfully, none for one that failed or has not returned, and the entries are in
\* the order in which the operations returned.
C2_CompletionOrderRecord ==
  /\ \A w \in Wrappers :
       Len(trace[w]) = Cardinality({i \in Succeeded : calls[i].w = w})
  /\ \A i \in DOMAIN calls :
       i \notin Succeeded => calls[i].pos = 0
  /\ \A i \in Succeeded :
       /\ calls[i].pos \in DOMAIN trace[calls[i].w]
       /\ trace[calls[i].w][calls[i].pos][1] = calls[i].op
       /\ calls[i].ret # NoHandle =>
            OutputIndex(trace[calls[i].w][calls[i].pos]) = calls[i].ret.index
  /\ \A i, j \in Succeeded :
       (calls[i].w = calls[j].w /\ calls[i].seq < calls[j].seq)
         => calls[i].pos < calls[j].pos

\* An operation failed, and two overlapping operations returned out of issue order.
C2_Witness ==
  /\ \E i \in Finished : calls[i].st = "err"
  /\ \E i, j \in Succeeded :
       i < j /\ calls[i].w = calls[j].w /\ calls[j].pos < calls[i].pos

\* C3: every input index an entry records is the output index of exactly one create_*
\* entry earlier in the same trace.
C3_InputsCreatedEarlier ==
  \A w \in Wrappers : \A p \in DOMAIN trace[w] :
    \A x \in InputIndices(trace[w][p]) :
      Cardinality({q \in 1..(p - 1) :
                     IsCreate(trace[w][q]) /\ OutputIndex(trace[w][q]) = x}) = 1

\* C4: an operation that returns after close() was called on its tracing executor, be
\* it issued after the close or in flight during it, fails with ClosedExecutorError.
C4_ClosedExecutor ==
  \A i \in Finished :
    (calls[i].op # "close" /\ calls[i].closed_seen)
      => (calls[i].st = "err" /\ calls[i].err = "ClosedExecutorError")

\* One operation was in flight when close() was called, another was issued after it,
\* and both have returned.
C4_Witness ==
  \E i, j, k \in DOMAIN calls :
    /\ i < j /\ j < k
    /\ calls[j].op = "close"
    /\ calls[i].w = calls[j].w /\ calls[k].w = calls[j].w
    /\ calls[i].op # "close" /\ calls[i].closed_seen /\ calls[i].st # "pending"
    /\ calls[k].op # "close" /\ calls[k].st # "pending"

IsClose(w) ==
  /\ Len(calls') = Len(calls) + 1
  /\ calls'[Len(calls')].op = "close"
  /\ calls'[Len(calls')].w = w

ClosedBefore(w) == \E i \in DOMAIN calls : calls[i].op = "close" /\ calls[i].w = w

\* C5: a close() after the first one on the same tracing executor does not fail and
\* changes nothing: not the executor, its target, nor the operations in flight.
C5_CloseIdempotent ==
  [][\A w \in Wrappers :
       (IsClose(w) /\ ClosedBefore(w)) =>
         /\ calls'[Len(calls')].st = "ok"
         /\ UNCHANGED <<target, last_used_index, trace, closed, allocated>>
         /\ SubSeq(calls', 1, Len(calls)) = calls]_vars

\* close() was called twice on one tracing executor.
C5_Witness ==
  \E i, j \in DOMAIN calls :
    /\ i < j
    /\ calls[i].op = "close" /\ calls[j].op = "close"
    /\ calls[i].w = calls[j].w
    /\ calls[j].st = "ok"

\* C6: an operation of one tracing executor that was given a handle owned by another
\* one fails, so that no entry records an index the other one allocated.
C6_ForeignHandleRejected ==
  \A i \in Finished :
    (calls[i].op \in {"create_call", "create_tuple", "create_selection"}
       /\ \E h \in InputHandles(calls[i]) : h.owner # calls[i].w)
      => calls[i].st = "err"

\* The cases in which a selection is to fail.
BadSelection(c) ==
  \/ c.index # None /\ c.name # None
  \/ c.index = None /\ c.name = None
  \/ c.source.value.v.k # "tup"
  \/ c.index # None /\ ~(c.index.i \in 0..(Len(c.source.value.v.el) - 1))
  \/ c.name # None /\ ~(\E k \in DOMAIN c.source.value.v.el :
                            c.source.value.v.el[k].name = c.name.s)

\* C7: create_selection on an open executor and a handle of its own target fails with
\* SelectionError when both selectors or neither are given, when the source is no tuple
\* and when the position or the name is not in the source; no handle is returned.
C7_SelectionError ==
  \A i \in Finished :
    (/\ calls[i].op = "create_selection"
     /\ ~closed[target[calls[i].w]]
     /\ calls[i].source.value.owner = target[calls[i].w]
     /\ BadSelection(calls[i]))
      => /\ calls[i].st = "err"
         /\ calls[i].err = "SelectionError"
         /\ calls[i].ret = NoHandle
         /\ calls[i].ret \notin Known

\* A selection with both selectors and one with a position past the end of a tuple
\* have failed.
C7_Witness ==
  /\ \E i \in Finished :
       /\ calls[i].op = "create_selection" /\ calls[i].err = "SelectionError"
       /\ calls[i].index # None /\ calls[i].name # None
  /\ \E i \in Finished :
       /\ calls[i].op = "create_selection" /\ calls[i].err = "SelectionError"
       /\ calls[i].source.value.v.k = "tup"
       /\ calls[i].index # None /\ calls[i].name = None

\* C8: the contexts a task has installed are exactly those of its open regions, in
\* the order of installation, each above the context that was current when it was
\* installed: the innermost region's context is the current one, and leaving a region,
\* by return or by error, makes the previous context current again.
C8_StackDiscipline ==
  \A t \in Tasks :
    /\ Len(context_stack[t]) = Len(scopes[t]) + 1
    /\ \A i \in DOMAIN scopes[t] :
         /\ context_stack[t][i + 1] = scopes[t][i].context
         /\ context_stack[t][i] = scopes[t][i].prev
    /\ scopes[t] = <<>> => current_context(t) = DefaultContext

\* An error has left an inner region and is passing through the outer one.
C8_Witness ==
  \E t \in Tasks :
    /\ raising[t]
    /\ observed[t].exits = "error"
    /\ Len(scopes[t]) = 1

C10_ComputeEntry ==
  /\ \A i \in Succeeded :
       calls[i].op = "compute" =>
         /\ calls[i].result = calls[i].self.value.v
         /\ calls[i].pos \in DOMAIN trace[calls[i].self.owner]
         /\ trace[calls[i].self.owner][calls[i].pos]
              = <<"compute", calls[i].self.index, calls[i].result>>
         /\ \E q \in 1..(calls[i].pos - 1) :
              /\ IsCreate(trace[calls[i].self.owner][q])
              /\ OutputIndex(trace[calls[i].self.owner][q]) = calls[i].self.index
  /\ \A w \in Wrappers :
       Cardinality({p \in DOMAIN trace[w] : trace[w][p][1] = "compute"})
         = Cardinality({i \in Succeeded : calls[i].op = "compute" /\ calls[i].w = w})

\* A handle was computed twice.
C10_Witness ==
  \E i, j \in Succeeded :
    /\ i < j
    /\ calls[i].op = "compute" /\ calls[j].op = "compute"
    /\ calls[i].self = calls[j].self

\* The entry a call that returned appended to the trace of its tracing executor.
EntryOf(i) == trace[calls[i].w][calls[i].pos]

\* C16: a create_* entry holds the operation name, the inputs and the output index,
\* the optional argument being there exactly when it was given: create_value has the
\* type_spec iff it is not None, create_call the argument index iff an argument was
\* passed, create_selection the position whenever index is not None (0 too) and else the
\* name; the output index is the index of the handle that was returned.
C16_EntryShape ==
  \A i \in Succeeded :
    calls[i].ret # NoHandle =>
      /\ calls[i].pos \in DOMAIN trace[calls[i].w]
      /\ EntryOf(i)[1] = calls[i].op
      /\ OutputIndex(EntryOf(i)) = calls[i].ret.index
      /\ calls[i].op = "create_value" =>
           /\ Len(EntryOf(i)) = (IF calls[i].type_spec # NoType THEN 4 ELSE 3)
           /\ EntryOf(i)[2] = calls[i].value
           /\ calls[i].type_spec # NoType => EntryOf(i)[3] = calls[i].type_spec
      /\ calls[i].op = "create_call" =>
           /\ Len(EntryOf(i)) = (IF calls[i].arg # NoHandle THEN 4 ELSE 3)
           /\ EntryOf(i)[2] = calls[i].comp.index
           /\ calls[i].arg # NoHandle => EntryOf(i)[3] = calls[i].arg.index
      /\ calls[i].op = "create_tuple" =>
           /\ Len(EntryOf(i)) = 3
           /\ DOMAIN EntryOf(i)[2] = DOMAIN calls[i].elements
           /\ \A k \in DOMAIN calls[i].elements :
                /\ EntryOf(i)[2][k].name = calls[i].elements[k].name
                /\ EntryOf(i)[2][k].v = calls[i].elements[k].v.index
      /\ calls[i].op = "create_selection" =>
           /\ Len(EntryOf(i)) = 4
           /\ EntryOf(i)[2] = calls[i].source.index
           /\ EntryOf(i)[3] = (IF calls[i].index # None THEN calls[i].index
                                                       ELSE calls[i].name)

\* The first element of a tuple was selected by position 0, out of a tuple built from a
\* value that was embedded with its type given.
C16_Witness ==
  /\ \E i \in Succeeded : calls[i].op = "create_selection" /\ calls[i].index = PyInt(0)
  /\ \E i \in Succeeded : calls[i].op = "create_value" /\ calls[i].type_spec # NoType

\* The calls the targets got on behalf of call i.
ForwardedFor(i) == {k \in DOMAIN forwarded : forwarded[k].call = i}

\* The handles of the target that call i has to pass on, in argument order.
Unwrapped(c) ==
  CASE c.op = "create_call" ->
         IF c.arg # NoHandle THEN <<c.comp.value, c.arg.value>> ELSE <<c.comp.value>>
    [] c.op = "create_tuple" -> [k \in DOMAIN c.elements |-> c.elements[k].v.value]
    [] c.op = "create_selection" -> <<c.source.value>>
    [] c.op = "compute" -> <<c.self.value>>
    [] OTHER -> <<>>

IsTargetHandle(h) == DOMAIN h = {"owner", "v"}

\* C15: every operation that returned made exactly one call of the same operation on
\* its target, and one still awaiting its target none yet; the call got the target's
\* own handles (the .value of each handle given, element by element, the names of a
\* create_tuple kept) and the other arguments unchanged, never a wrapper handle; the
\* handle returned wraps the handle the target returned and has its type_signature.
C15_Forwarding ==
  /\ \A i \in DOMAIN calls :
       Cardinality(ForwardedFor(i)) = (IF i \in Finished THEN 1 ELSE 0)
  /\ \A k \in DOMAIN forwarded :
       LET f == forwarded[k]
           c == calls[f.call]
       IN /\ f.op = c.op
          /\ f.t = (IF c.op = "compute" THEN c.self.value.owner ELSE target[c.w])
          /\ f.handles = Unwrapped(c)
          /\ \A n \in DOMAIN f.handles : IsTargetHandle(f.handles[n])
          /\ c.op = "create_tuple" =>
               f.names = [n \in DOMAIN c.elements |-> c.elements[n].name]
          /\ f.value = c.value /\ f.type_spec = c.type_spec
          /\ f.index = c.index /\ f.name = c.name
          /\ f.ok = (c.st = "ok")
          /\ (f.ok /\ c.op \in {"create_value", "create_call", "create_tuple",
                                "create_selection"}) =>
               /\ c.ret.value = f.h
               /\ IsTargetHandle(c.ret.value)
               /\ TracingExecutorValue_type_signature(c.ret)
                    = ExecutorValue_type_signature(f.h)

\* A tuple with a named element was built from a handle, and a call is still waiting
\* for its target.
C15_Witness ==
  /\ \E i \in Succeeded :
       /\ calls[i].op = "create_tuple"
       /\ \E k \in DOMAIN calls[i].elements : calls[i].elements[k].name = "x"
  /\ \E i \in DOMAIN calls : calls[i].st = "pending"

\* The step is the return of a compute(), or a close().
ComputeReturns ==
  \E i \in Pending("compute") : calls'[i].st # "pending"
CloseRuns ==
  Len(calls') = Len(calls) + 1 /\ calls'[Len(calls')].op = "close"

TraceExtended ==
  \A w \in Wrappers :
    /\ Len(trace[w]) <= Len(trace'[w])
    /\ \A p \in DOMAIN trace[w] : trace'[w][p] = trace[w][p]

\* C17: every step of every operation keeps the entries the trace has, each at its
\* place; a compute() and a close() leave the index counter as it is, and a close()
\* leaves the trace as it is.
C17_AppendOnly ==
  [][/\ TraceExtended
     /\ (ComputeReturns \/ CloseRuns) => last_used_index' = last_used_index
     /\ CloseRuns => trace' = trace]_vars

\* An executor whose trace holds a create_* entry and a compute entry was closed.
C17_Witness ==
  \E i \in DOMAIN calls :
    /\ calls[i].op = "close"
    /\ \E p, q \in DOMAIN trace[calls[i].w] :
         /\ IsCreate(trace[calls[i].w][p])
         /\ trace[calls[i].w][q][1] = "compute"

\* The target has just failed the call it was forwarded.
TargetFails == Len(forwarded') = Len(forwarded) + 1 /\ ~forwarded'[Len(forwarded')].ok

\* The index of the handle a tracing executor handed out last (0: none yet).
LastHandedOut(w) == IF allocated[w] = <<>> THEN 0 ELSE allocated[w][Len(allocated[w])].index

\* C18: when the target fails an operation, the caller gets the target's error, and
\* the index counter, the trace and the handles handed out are as before, so a failed
\* compute() leaves no entry; and a create_* that returns gets the index after the
\* one handed out last, whatever failed in between.
C18_FailureLeavesState ==
  [][/\ TargetFails =>
          /\ calls'[forwarded'[Len(forwarded')].call].st = "err"
          /\ calls'[forwarded'[Len(forwarded')].call].err = forwarded'[Len(forwarded')].err
          /\ last_used_index' = last_used_index
          /\ trace' = trace
          /\ allocated' = allocated
     /\ \A i \in DOMAIN calls :
          (calls[i].st = "pending" /\ calls'[i].st = "ok" /\ calls'[i].ret # NoHandle)
            => calls'[i].ret.index = LastHandedOut(calls[i].w) + 1]_vars

\* A create_* failed in its target, and the same tracing executor handed out a handle
\* afterwards.
C18_Witness ==
  \E i, j \in Finished :
    /\ calls[i].w = calls[j].w
    /\ calls[i].st = "err" /\ calls[i].op # "compute"
    /\ calls[j].st = "ok" /\ calls[j].ret # NoHandle
    /\ calls[i].seq < calls[j].seq

\* A compute() failed in its target.
ComputeFailed == \E i \in Finished : calls[i].op = "compute" /\ calls[i].st = "err"

\* The create_* entries of a trace, in trace order.
CreateEntries(w) == SelectSeq(trace[w], IsCreate)

\* C19: in every state, whatever operations are in flight and in whatever order they
\* returned, the create_* entries of a trace carry the output indices 1, 2, ..., k in
\* trace order, k being the index counter of the tracing executor.
C19_IndicesMatchEntries ==
  \A w \in Wrappers :
    /\ Len(CreateEntries(w)) = last_used_index[w]
    /\ \A j \in DOMAIN CreateEntries(w) : OutputIndex(CreateEntries(w)[j]) = j

\* Two operations of one tracing executor returned in the opposite order while a
\* third is still waiting for the target.
C19_Witness ==
  \E i, j, k \in DOMAIN calls :
    /\ i < j
    /\ calls[i].w = calls[j].w /\ calls[k].w = calls[i].w
    /\ calls[i].st = "ok" /\ calls[j].st = "ok" /\ calls[k].st = "pending"
    /\ calls[i].ret # NoHandle /\ calls[j].ret # NoHandle
    /\ calls[j].ret.index < calls[i].ret.index

\* The parameters the claim gives the test: the named executors written, or the two
\* defaults when the decorator is applied bare or called with nothing.
ExpectedParams ==
  IF written.form = "called" /\ written.args # <<>>
    THEN written.args
    ELSE <<[callable |-> FALSE, label |-> "reference",
            executor |-> [is_context |-> TRUE, name |-> "reference"]],
           [callable |-> FALSE, label |-> "local",
            executor |-> [is_context |-> FALSE, name |-> "local"]]>>

RunsOf(k) == {r \in DOMAIN body_runs : body_runs[r].k = k}

\* C14: the decorated test has exactly the named executors written as its parameters,
\* and exactly 'reference' and 'local' when `executors` is applied bare or called with
\* no argument; the body runs once per parameter, never more, and sees as the current
\* context the one of that parameter's executor: the executor itself when it is a
\* Context, an ExecutionContext around it otherwise.
C14_Parameterization ==
  generated.decorated =>
    /\ generated.params = ExpectedParams
    /\ \A k \in DOMAIN generated.params :
         Cardinality(RunsOf(k)) = (IF k \in running.ran \/ (running.k = k /\ running.body)
                                     THEN 1 ELSE 0)
    /\ \A r \in DOMAIN body_runs :
         /\ body_runs[r].k \in DOMAIN generated.params
         /\ body_runs[r].label = generated.params[body_runs[r].k].label
         /\ body_runs[r].saw.executor = generated.params[body_runs[r].k].executor.name
         /\ body_runs[r].saw.wrapped = ~generated.params[body_runs[r].k].executor.is_context

\* `@executors()` was written, and both generated tests have run, one under the
\* reference executor itself and one under an ExecutionContext.
C14_Witness ==
  /\ written = [form |-> "called", args |-> <<>>]
  /\ running.ran = {1, 2}
  /\ \E r, q \in DOMAIN body_runs : body_runs[r].saw.wrapped /\ ~body_runs[q].saw.wrapped

\* Named executors were written, and every generated test has run.
SuppliedRan ==
  /\ written.form = "called" /\ Len(written.args) = MaxNamed
  /\ running.ran = DOMAIN written.args

\* `@executors` was written without a call, and both generated tests have run.
BareRan == written.form = "bare" /\ running.ran = {1, 2}

\* C11: deserialize_type(serialize_type(t)) is structurally equal to t, each of the
\* two is assignable from the other, and serializing it again gives the wire message
\* serialize_type(t) gave, for tensor, sequence, named tuple and function types.
C11_RoundTrip ==
  /\ t2 # NoneType =>
       /\ t2 = t1
       /\ is_assignable_from(t1, t2)
       /\ is_assignable_from(t2, t1)
  /\ p2 # NoWireType => p2 = p1

\* The round trip of a function type whose parameter is a named tuple with a named and
\* an unnamed element is complete.
C11_Witness ==
  /\ p2 # NoWireType
  /\ t1.kind = "function"
  /\ t1.parameter # <<>>
  /\ t1.parameter[1].kind = "tuple"
  /\ \E i, j \in DOMAIN t1.parameter[1].elements :
       t1.parameter[1].elements[i].name = None /\ t1.parameter[1].elements[j].name # None

\* The round trip of a tensor type with an unknown dimension is complete.
UnknownDimRoundTrip ==
  /\ p2 # NoWireType
  /\ t1.kind = "tensor"
  /\ \E i \in DOMAIN t1.shape : t1.shape[i] = None

\* The wire message of a named tuple type has one element per field, in order, with a
\* name exactly when the field has one, and so have the tuples among its elements.
RECURSIVE TupleOnWire(_, _)
TupleOnWire(type_spec, type_proto) ==
  /\ type_proto.which = "tuple"
  /\ Len(type_proto.element) = Len(type_spec.elements)
  /\ \A i \in DOMAIN type_spec.elements :
       /\ (type_proto.element[i].name # "") = (type_spec.elements[i].name # None)
       /\ type_spec.elements[i].name # None
            => type_proto.element[i].name = type_spec.elements[i].name.s
       /\ type_proto.element[i].value.which = type_spec.elements[i].type.kind
       /\ type_spec.elements[i].type.kind = "tuple"
            => TupleOnWire(type_spec.elements[i].type, type_proto.element[i].value)

\* C12: serialize_type of a named tuple type gives a tuple message with one element per
\* field in the order of the fields, an element having a name exactly when its field is
\* named, an unnamed field between named ones included, and the same for nested tuples.
C12_TupleWire ==
  (p1 # NoWireType /\ t1.kind = "tuple") => TupleOnWire(t1, p1)

\* The tuple serialized has an unnamed field between two named ones, and a tuple
\* among its fields.
C12_Witness ==
  /\ p1 # NoWireType
  /\ t1.kind = "tuple"
  /\ Len(t1.elements) = 3
  /\ t1.elements[1].name # None /\ t1.elements[2].name = None /\ t1.elements[3].name # None
  /\ \E i \in DOMAIN t1.elements : t1.elements[i].type.kind = "tuple"

\* C13: serialize_type of a tensor type gives a tensor message with the dtype and one
\* dim per dimension, in order, whose size is the size of the dimension, or -1 when the
\* dimension is None; a dtype given with no shape has an empty shape.
C13_TensorWire ==
  /\ (p1 # NoWireType /\ t1.kind = "tensor") =>
       /\ p1.which = "tensor"
       /\ p1.dtype = (IF t1.dtype = "int32" THEN "DT_INT32" ELSE "DT_STRING")
       /\ Len(p1.dim) = Len(t1.shape)
       /\ \A i \in DOMAIN t1.shape :
            p1.dim[i] = (IF t1.shape[i] = None THEN -1 ELSE t1.shape[i].i)
  /\ (p1 # NoWireType /\ t0.type = NoneType) =>
       p1.which = "tensor" /\ p1.dim = <<>>

\* A tensor type with a known and an unknown dimension was serialized.
C13_Witness ==
  /\ p1 # NoWireType
  /\ t1.kind = "tensor"
  /\ \E i, j \in DOMAIN t1.shape : t1.shape[i] = None /\ t1.shape[j] # None

\* A dtype given without a shape was serialized.
BareDTypeSerialized == p1 # NoWireType /\ t0.type = NoneType

\* C20: a test that has been set up has a loop no other test has; every run_sync of it
\* ran its coroutine to the end on that loop and returned what the coroutine returned;
\* the loop is open until the test is over and has been closed exactly once when it is,
\* whether the test passed, failed or failed in setUp after the loop was made.
C20_OwnLoopClosedOnce ==
  /\ \A m \in TestMethods :
       /\ tests[m].pc # "ready" => tests[m].loop \in DOMAIN loops
       /\ (tests[m].pc \notin {"ready", "done"}) => loops[tests[m].loop].closed = 0
       /\ tests[m].pc = "done" => loops[tests[m].loop].closed = 1
       /\ \A n \in DOMAIN tests[m].runs :
            /\ tests[m].runs[n].loop = tests[m].loop
            /\ loops[tests[m].loop].completed[n] = tests[m].runs[n].coro
            /\ tests[m].runs[n].raised = tests[m].runs[n].coro.raises
            /\ ~tests[m].runs[n].raised =>
                 tests[m].runs[n].returned = tests[m].runs[n].coro.returns
       /\ tests[m].pc # "ready" =>
            Len(loops[tests[m].loop].completed) = Len(tests[m].runs)
  /\ \A m, n \in TestMethods :
       (m # n /\ tests[m].pc # "ready" /\ tests[n].pc # "ready")
         => tests[m].loop # tests[n].loop

\* One test failed in setUp after its loop was made, the other ran two coroutines and
\* passed; both are over.
C20_Witness ==
  \E m, n \in TestMethods :
    /\ tests[m].pc = "done" /\ tests[m].outcome = "error in setUp"
    /\ tests[n].pc = "done" /\ tests[n].outcome = "passed"
    /\ Len(tests[n].runs) = MaxRuns

\* A test whose coroutine raised is over.
CoroutineRaised ==
  \E m \in TestMethods :
    /\ tests[m].pc = "done"
    /\ \E n \in DOMAIN tests[m].runs : tests[m].runs[n].raised

====
